---- MODULE Spec2Model ----
(***************************************************************************)
(* A model of src/main.py: the FastAPI application object `app`, built by   *)
(* `FastAPI()` with its default arguments, and the one path operation the  *)
(* module registers on it, `@app.get("/")` on `async def root()`.           *)
(*                                                                         *)
(* The module's own statements are lines 1-8 of src/main.py.  What the     *)
(* calls `FastAPI()` and `app.get("/")` do (the route table they build, how *)
(* a request is matched against it, how a returned dict becomes a          *)
(* response) is the behaviour of the fastapi/starlette library those lines *)
(* call, modelled here as the library executes it.                         *)
(*                                                                         *)
(* A path is the sequence of what follows each of its slashes: "/" is      *)
(* <<"">>, "/docs" is <<"docs">>, "/docs/" is <<"docs", "">>, and the      *)
(* empty path is <<>>.                                                     *)
(***************************************************************************)
EXTENDS Naturals, Sequences, FiniteSets

\* Number of client connections that may hold a request at the same time.
MaxConn == 2

Conns == 1..MaxConn

VARIABLES
    conn,            \* conn[c]: what connection c holds: nothing, a request in flight, a response
    routes,          \* app.router.routes, in registration order
    openapi_schema,  \* app.openapi_schema: "None" until /openapi.json is first served
    server,          \* the process serving `app`: "listening" or "stopped"
    seenError        \* history: some request has been answered with a non-200 status

vars == <<conn, routes, openapi_schema, server, seenError>>

----------------------------------------------------------------------------
\* Paths and methods

RootPath     == <<"">>
DocsPath     == <<"docs">>
RedirectPath == <<"docs", "oauth2-redirect">>
RedocPath    == <<"redoc">>
OpenapiPath  == <<"openapi.json">>

Methods == {"GET", "HEAD", "POST", "PUT", "PATCH", "DELETE", "OPTIONS"}

\* The requests a client sends: GET on "/" with each combination of an empty or
\* non-empty query string and body; every other method on "/"; and a smaller set
\* of methods on the other paths (the paths of routes that exist, one of none, one
\* with a trailing slash).
OtherPaths   == {DocsPath, RedirectPath, RedocPath, OpenapiPath,
                 <<"nonexistent">>, <<"docs", "">>}
OtherMethods == {"GET", "HEAD", "POST"}

Requests ==
    {[method |-> "GET", path |-> RootPath, query |-> q, body |-> b] :
        q \in {"", "x=1"}, b \in {"", "payload"}}
    \cup
    {[method |-> m, path |-> RootPath, query |-> "", body |-> ""] : m \in Methods}
    \cup
    {[method |-> m, path |-> p, query |-> "", body |-> ""] :
        m \in OtherMethods, p \in OtherPaths}

----------------------------------------------------------------------------
\* The application object (src/main.py line 3) and its route (lines 6-8)

\* starlette.routing.Route, as FastAPI.setup() adds it with add_route(): a
\* function endpoint gets methods {"GET"}, and "HEAD" is added wherever "GET" is.
StarletteRoute(path, endpoint) ==
    [path |-> path, methods |-> {"GET", "HEAD"}, endpoint |-> endpoint]

\* fastapi.routing.APIRoute, as app.get() adds it: the methods are exactly the
\* ones given; no "HEAD" is added.
APIRoute(path, endpoint, methods) ==
    [path |-> path, methods |-> methods, endpoint |-> endpoint]

\* app = FastAPI(): with the default openapi_url, docs_url, redoc_url and
\* swagger_ui_oauth2_redirect_url, setup() registers four documentation routes.
FastAPI ==
    <<StarletteRoute(OpenapiPath, "openapi"),
      StarletteRoute(DocsPath, "swagger_ui_html"),
      StarletteRoute(RedirectPath, "swagger_ui_redirect"),
      StarletteRoute(RedocPath, "redoc_html")>>

\* The path and methods of the decorator on line 6, @app.get("/").
AppGetMethodsBroken == {"GET", "POST"}
RootRoutePath    == RootPath
RootRouteMethods == {"GET"}

\* @app.get("/") applied to root: appends an APIRoute to the routes of `rs`.
app_get_two_paths(rs) ==
    rs \o <<APIRoute(RootRoutePath, "root", RootRouteMethods),
            APIRoute(<<"nonexistent">>, "root", RootRouteMethods)>>
app_get(rs) ==
    Append(rs, APIRoute(RootRoutePath, "root", RootRouteMethods))

\* The dict literal root() returns (line 8), as its sequence of (key, value) pairs.
StatusDict == << <<"status", "Gemini is active">> >>


\* The parameters root() declares (line 7): none, so the request handler FastAPI
\* builds for it reads nothing of the request and has nothing to validate.
RootParamsRequired == {"q"}
RootParams == {}

\* Whether the body of root() suspends on something that never completes. It has
\* no await: once called, the coroutine runs to its return.
RootAwaitsForever == TRUE
RootSuspends == FALSE

----------------------------------------------------------------------------
\* Routing: starlette.routing.Router over app.router.routes

\* The path the router matches on: scope["path"], which holds no query string.
RoutePath(req) ==
    req.path

\* Route.matches(): the path decides between a match and none, the method between
\* a full and a partial match.
Matches(route, req) ==
    IF route.path # RoutePath(req) THEN "NONE"
    ELSE IF req.method \in route.methods THEN "FULL"
    ELSE "PARTIAL"

\* The path redirect_slashes tries: path.rstrip("/") if the path ends with a
\* slash, path + "/" if not.
RECURSIVE RStripSlash(_)
RStripSlash(path) ==
    IF path # <<>> /\ path[Len(path)] = ""
    THEN RStripSlash(SubSeq(path, 1, Len(path) - 1))
    ELSE path

RedirectTarget(path) ==
    IF path # <<>> /\ path[Len(path)] = "" THEN RStripSlash(path) ELSE Append(path, "")

NoEndpoint == "-"

\* Router.app(): the first route that matches fully handles the request; failing
\* that, the first partial match answers 405; failing that, a path that matches
\* some route once a trailing slash is added or removed is redirected; anything
\* else is not found.
Route(rs, req) ==
    LET full    == {i \in 1..Len(rs) : Matches(rs[i], req) = "FULL"}
        partial == {i \in 1..Len(rs) : Matches(rs[i], req) = "PARTIAL"}
        First(S) == CHOOSE i \in S : \A j \in S : i <= j
        redir   == [req EXCEPT !.path = RedirectTarget(RoutePath(req)), !.query = ""]
    IN  IF full # {}
        THEN [kind |-> "endpoint", endpoint |-> rs[First(full)].endpoint, status |-> 200]
        ELSE IF partial # {}
        THEN [kind |-> "http_exception", endpoint |-> NoEndpoint, status |-> 405]
        ELSE IF RoutePath(req) # RootPath
                /\ \E i \in 1..Len(rs) : Matches(rs[i], redir) # "NONE"
        THEN [kind |-> "redirect", endpoint |-> NoEndpoint, status |-> 307]
        ELSE [kind |-> "http_exception", endpoint |-> NoEndpoint, status |-> 404]

----------------------------------------------------------------------------
\* Responses

Punct(v) == [t |-> "punct", v |-> v]
Str(v)   == [t |-> "string", v |-> v]
Doc(v)   == [t |-> "document", v |-> v]

\* json.dumps of a dict of strings, as the tokens of the text it writes.
RECURSIVE RenderPairs(_)
RenderPairs(ps) ==
    IF ps = <<>> THEN <<>>
    ELSE LET head == <<Str(ps[1][1]), Punct(":"), Str(ps[1][2])>>
         IN  IF Len(ps) = 1 THEN head
             ELSE head \o <<Punct(",")>> \o RenderPairs(Tail(ps))

Render(dict) ==
    <<Punct("{")>> \o RenderPairs(dict) \o <<Punct("}")>>

\* The media type of the class FastAPI() uses for a path operation's return value
\* when none is given: default_response_class = JSONResponse.
PlainTextMediaType == "text/plain"
DefaultMediaType   == "application/json"

JSONResponse(content, status) ==
    [status |-> status, media_type |-> "application/json", body |-> Render(content)]

\* What the request handler of a path operation sends for the value the endpoint
\* returned: it is serialized with the default response class, status 200.
SerializeResponse(value) ==
    [status |-> 200, media_type |-> DefaultMediaType, body |-> Render(value)]

\* The documentation endpoints return their Response themselves.
DocsResponse(endpoint) ==
    IF endpoint = "openapi"
    THEN [status |-> 200, media_type |-> "application/json", body |-> <<Doc("openapi schema")>>]
    ELSE [status |-> 200, media_type |-> "text/html", body |-> <<Doc(endpoint)>>]

\* starlette's handler for HTTPException, and FastAPI's for a request that fails
\* the validation of declared parameters.
HTTPExceptionResponse(status) ==
    JSONResponse(<< <<"detail",
                      CASE status = 404 -> "Not Found"
                        [] status = 405 -> "Method Not Allowed"
                        [] OTHER        -> "Unprocessable Entity">> >>, status)

RedirectResponse ==
    [status |-> 307, media_type |-> "", body |-> <<>>]

\* The process after a request was handled with the given outcome: exceptions
\* raised while routing are turned into responses by the exception middleware
\* FastAPI() installs, so none reaches the server.
ServerStopsOnError(outcome) ==
    IF outcome = "http_exception" THEN "stopped" ELSE "listening"
ServerStopsAfterResponse(outcome) ==
    IF outcome = "response" THEN "stopped" ELSE "listening"
ServerAfter(outcome) ==
    "listening"

----------------------------------------------------------------------------
\* The handler (src/main.py lines 7-8)

NoObject == 0
NoValue  == <<>>
NoResponse == [status |-> 0, media_type |-> "", body |-> <<>>]
NoRequest  == [method |-> "-", path |-> <<>>, query |-> "", body |-> ""]

Idle == [stage |-> "idle", req |-> NoRequest, obj |-> NoObject,
         value |-> NoValue, resp |-> NoResponse]

\* The dict objects alive in held: those returned by a call of root() and not yet
\* serialized.
LiveObjects(held) ==
    {held[c].obj : c \in {d \in DOMAIN held : held[d].stage = "returned"}}

\* The object a dict display creates: one that is not among the live ones.
NewObject(held) ==
    CHOOSE o \in 1..(Cardinality(DOMAIN held) + 1) :
        /\ o \notin LiveObjects(held)
        /\ \A p \in 1..(Cardinality(DOMAIN held) + 1) : p \notin LiveObjects(held) => o <= p

\* root(): builds a new dict {"status": "Gemini is active"} on every call and
\* returns it; it reads nothing of the application, of the request or of the other
\* calls in progress. The result is the object and its value.
rootSharedDict(held) ==
    [obj |-> 1, value |-> StatusDict]
rootCountsCalls(held) ==
    [obj   |-> NewObject(held),
     value |-> IF LiveObjects(held) = {} THEN StatusDict
               ELSE << <<"status", "Gemini is busy">> >>]
root(held) ==
    [obj |-> NewObject(held), value |-> StatusDict]

----------------------------------------------------------------------------
\* The state after `import main`: app built (line 3), root registered (lines 6-8)

Init ==
    /\ conn = [c \in Conns |-> Idle]
    /\ routes = app_get(FastAPI)
    /\ openapi_schema = "None"
    /\ server = "listening"
    /\ seenError = FALSE

Pending(c) == conn[c].stage = "pending"

Outcome(c) == Route(routes, conn[c].req)

Respond(c, resp) ==
    /\ conn' = [conn EXCEPT ![c] = [stage |-> "responded", req |-> conn[c].req,
                                    obj |-> NoObject, value |-> NoValue, resp |-> resp]]
    /\ seenError' = (seenError \/ resp.status # 200)

\* A client sends a request on an idle connection.
Send(c, r) ==
    /\ server = "listening"
    /\ conn[c].stage = "idle"
    /\ conn' = [conn EXCEPT ![c] = [Idle EXCEPT !.stage = "pending", !.req = r]]
    /\ UNCHANGED <<routes, openapi_schema, server, seenError>>

\* The request matches the route of root. Its request handler first looks in the
\* request for the parameters root() declares and answers 422 if one is missing;
\* root() declares none, so it is called, and returns its dict.
CallRoot(c) ==
    /\ server = "listening"
    /\ Pending(c)
    /\ Outcome(c).kind = "endpoint" /\ Outcome(c).endpoint = "root"
    /\ ~RootSuspends
    /\ IF RootParams # {} /\ conn[c].req.query = ""
       THEN /\ Respond(c, HTTPExceptionResponse(422))
            /\ server' = ServerAfter("http_exception")
       ELSE /\ LET r == root(conn)
               IN  conn' = [conn EXCEPT ![c] = [stage |-> "returned", req |-> conn[c].req,
                                                obj |-> r.obj, value |-> r.value,
                                                resp |-> NoResponse]]
            /\ server' = ServerAfter("response")
            /\ UNCHANGED seenError
    /\ UNCHANGED <<routes, openapi_schema>>

\* The value root() returned is serialized and sent; the dict is dropped.
SendResponse(c) ==
    /\ server = "listening"
    /\ conn[c].stage = "returned"
    /\ Respond(c, SerializeResponse(conn[c].value))
    /\ server' = ServerAfter("response")
    /\ UNCHANGED <<routes, openapi_schema>>

\* The request matches a documentation route; /openapi.json builds the schema on
\* its first use and keeps it in app.openapi_schema.
ServeDocs(c) ==
    /\ server = "listening"
    /\ Pending(c)
    /\ Outcome(c).kind = "endpoint" /\ Outcome(c).endpoint # "root"
    /\ Respond(c, DocsResponse(Outcome(c).endpoint))
    /\ openapi_schema' = IF Outcome(c).endpoint = "openapi" THEN "generated"
                         ELSE openapi_schema
    /\ server' = ServerAfter("response")
    /\ UNCHANGED routes

\* No route matches the method (405) or the path (404).
RejectRequest(c) ==
    /\ server = "listening"
    /\ Pending(c)
    /\ Outcome(c).kind = "http_exception"
    /\ Respond(c, HTTPExceptionResponse(Outcome(c).status))
    /\ server' = ServerAfter("http_exception")
    /\ UNCHANGED <<routes, openapi_schema>>

\* The path matches a route once its trailing slash is added or removed.
RedirectSlashes(c) ==
    /\ server = "listening"
    /\ Pending(c)
    /\ Outcome(c).kind = "redirect"
    /\ Respond(c, RedirectResponse)
    /\ server' = ServerAfter("response")
    /\ UNCHANGED <<routes, openapi_schema>>

\* The client reads the response; the connection is idle again.
Receive(c) ==
    /\ conn[c].stage = "responded"
    /\ conn' = [conn EXCEPT ![c] = Idle]
    /\ UNCHANGED <<routes, openapi_schema, server, seenError>>

Handle(c) ==
    \/ CallRoot(c)
    \/ SendResponse(c)
    \/ ServeDocs(c)
    \/ RejectRequest(c)
    \/ RedirectSlashes(c)

Next ==
    \/ \E c \in Conns, r \in Requests : Send(c, r)
    \/ \E c \in Conns : CallRoot(c)
    \/ \E c \in Conns : SendResponse(c)
    \/ \E c \in Conns : ServeDocs(c)
    \/ \E c \in Conns : RejectRequest(c)
    \/ \E c \in Conns : RedirectSlashes(c)
    \/ \E c \in Conns : Receive(c)

Spec == Init /\ [][Next]_vars

\* The requests of the fair specification: each kind of request once.
LiveRequests ==
    {r \in Requests :
        \/ r.method = "GET" /\ r.path \in {RootPath, OpenapiPath, <<"nonexistent">>, <<"docs", "">>}
        \/ r.method = "POST" /\ r.path = RootPath}

FairNext ==
    \/ \E c \in Conns, r \in LiveRequests : Send(c, r)
    \/ \E c \in Conns : Handle(c)
    \/ \E c \in Conns : Receive(c)

\* The server's event loop runs every request it has accepted.
FairSpec == Init /\ [][FairNext]_vars /\ \A c \in Conns : WF_vars(Handle(c))

----------------------------------------------------------------------------
\* Properties

Answered(c)  == conn[c].stage = "responded"
IsGetRoot(c) == conn[c].req.method = "GET" /\ conn[c].req.path = RootPath
InFlight(c)  == conn[c].stage \in {"pending", "returned"}

\* The text {"status": "Gemini is active"}, token by token.
StatusBody ==
    <<Punct("{"), Str("status"), Punct(":"), Str("Gemini is active"), Punct("}")>>

\* Connection c is answered in this step.
AnsweredNow(c) == conn[c].stage # "responded" /\ conn'[c].stage = "responded"

\* C1: every GET request to "/", whatever its query string and body and whatever
\* was requested before, is answered with status 200 and the body
\* {"status": "Gemini is active"}, one key and one value.
C1_GetRootIs200WithStatusBody ==
    \A c \in Conns :
        Answered(c) /\ IsGetRoot(c) =>
            conn[c].resp.status = 200 /\ conn[c].resp.body = StatusBody

\* C1 witness: a GET "/" carrying a query string and a body, sent after an earlier
\* request failed, holds its 200 response.
C1_Witness ==
    \E c \in Conns :
        /\ Answered(c) /\ IsGetRoot(c)
        /\ conn[c].req.query # "" /\ conn[c].req.body # ""
        /\ seenError
        /\ conn[c].resp.status = 200 /\ conn[c].resp.body = StatusBody

\* C2: a request to "/" with any method other than GET is answered 405, never
\* 200, and the service is still listening once it is answered.
C2_OtherMethodOnRootIs405 ==
    \A c \in Conns :
        Answered(c) /\ conn[c].req.path = RootPath /\ conn[c].req.method # "GET" =>
            /\ conn[c].resp.status # 200
            /\ conn[c].resp.status = 405
            /\ server = "listening"

\* C2 witness: every connection holds the 405 answer to a non-GET request on "/",
\* one of them to HEAD, and no two to the same method.
C2_Witness ==
    /\ \A c \in Conns :
          /\ Answered(c) /\ conn[c].req.path = RootPath /\ conn[c].req.method # "GET"
          /\ conn[c].resp.status = 405
    /\ \E c \in Conns : conn[c].req.method = "HEAD"
    /\ \A c, d \in Conns : c # d => conn[c].req.method # conn[d].req.method
    /\ server = "listening"

\* The paths of the routes FastAPI() adds by itself.
DocsPaths == {OpenapiPath, DocsPath, RedirectPath, RedocPath}

\* C3 as stated: the service serves the one route (GET, "/"): a request to any
\* other path, with any method, is answered 404 or 405 and never 200.
C3_OnlyRootRouteIsServed ==
    \A c \in Conns :
        Answered(c) /\ conn[c].req.path # RootPath =>
            conn[c].resp.status \in {404, 405}

\* C3 as amended: the module registers one route of its own, (GET, "/"). On any
\* other path the answer is the framework's: 200 for GET and HEAD on the four
\* documentation routes FastAPI() adds by default, and otherwise never 200 but
\* 404, 405 or the 307 redirect of a trailing slash.
C3_OnlyRootAndDefaultDocsRoutes ==
    /\ \E i \in 1..Len(routes) :
          /\ routes[i] = [path |-> RootPath, methods |-> {"GET"}, endpoint |-> "root"]
          /\ \A j \in 1..Len(routes) : routes[j].endpoint = "root" => j = i
    /\ \A c \in Conns :
          Answered(c) /\ conn[c].req.path # RootPath =>
              IF conn[c].req.path \in DocsPaths /\ conn[c].req.method \in {"GET", "HEAD"}
              THEN conn[c].resp.status = 200
              ELSE conn[c].resp.status \in {404, 405, 307}

\* C3 witness: one connection holds the 200 answer to GET /docs, another the 404
\* answer to a path that is no route.
C3_Witness ==
    \E c, d \in Conns :
        /\ Answered(c) /\ conn[c].req.path = DocsPath /\ conn[c].req.method = "GET"
        /\ conn[c].resp.status = 200
        /\ Answered(d) /\ conn[d].req.path = <<"nonexistent">>
        /\ conn[d].resp.status = 404

\* C4: once a request has been answered with a non-200 status, the service is
\* still listening after every later step, the route of root is still registered,
\* and every GET "/" answered from then on gets 200 and the fixed body.
C4_RootSurvivesFailedRequests ==
    [][seenError =>
          /\ server' = "listening"
          /\ Route(routes', [NoRequest EXCEPT !.method = "GET", !.path = RootPath]).endpoint = "root"
          /\ \A c \in Conns :
                AnsweredNow(c) /\ IsGetRoot(c) =>
                    conn'[c].resp.status = 200 /\ conn'[c].resp.body = StatusBody]_vars

\* C4 witness: one connection holds the 404 answer to GET /nonexistent, another
\* the 200 answer to GET "/", and the service is listening.
C4_Witness ==
    /\ server = "listening"
    /\ \E c, d \in Conns :
          /\ Answered(d) /\ conn[d].req.method = "GET"
          /\ conn[d].req.path = <<"nonexistent">> /\ conn[d].resp.status = 404
          /\ Answered(c) /\ IsGetRoot(c)
          /\ conn[c].resp.status = 200 /\ conn[c].resp.body = StatusBody

\* C5: while every connection holds a GET "/" (in flight or answered), each call
\* of root() in progress has its own dict with the fixed value, every answer is a
\* 200 with the fixed body, and so all the answers are identical.
C5_ConcurrentGetRootAllAlike ==
    (\A c \in Conns : conn[c].stage # "idle" /\ IsGetRoot(c)) =>
        \A c, d \in Conns :
            /\ conn[c].stage = "returned" => conn[c].value = StatusDict
            /\ conn[c].stage = "returned" /\ conn[d].stage = "returned" /\ c # d =>
                  conn[c].obj # conn[d].obj
            /\ Answered(c) => conn[c].resp.status = 200 /\ conn[c].resp.body = StatusBody
            /\ Answered(c) /\ Answered(d) => conn[c].resp = conn[d].resp

\* C5 witness: every connection holds the 200 answer to its GET "/".
C5_Witness ==
    \A c \in Conns :
        Answered(c) /\ IsGetRoot(c) /\ conn[c].resp.status = 200

\* C7: the response to GET "/" has the media type application/json.
C7_GetRootIsJson ==
    \A c \in Conns :
        Answered(c) /\ IsGetRoot(c) => conn[c].resp.media_type = "application/json"

\* C7 witness: a connection holds the answer to GET "/", a 200 of type JSON.
C7_Witness ==
    \E c \in Conns :
        /\ Answered(c) /\ IsGetRoot(c)
        /\ conn[c].resp.status = 200 /\ conn[c].resp.media_type = "application/json"

\* C8: in every reachable state the service is listening, and its route table is
\* the one built when the module was imported: handling a request, matched or
\* not, changes neither.
C8_AlwaysListeningSameRoutes ==
    /\ server = "listening"
    /\ routes = app_get(FastAPI)

\* C8 witness: a matched request and an unmatched one have been handled, with
\* different methods, and the service is listening with the same routes.
C8_Witness ==
    /\ server = "listening" /\ routes = app_get(FastAPI)
    /\ \E c, d \in Conns :
          /\ Answered(c) /\ conn[c].resp.status = 200
          /\ Answered(d) /\ conn[d].resp.status \in {404, 405}
          /\ conn[c].req.method # conn[d].req.method

\* The steps of connection c that handle a GET "/": root() is called, or the
\* value it returned is sent.
RootStep(c) ==
    /\ IsGetRoot(c)
    /\ \/ conn[c].stage = "pending" /\ conn'[c].stage = "returned"
       \/ conn[c].stage = "returned" /\ conn'[c].stage = "responded"

\* C9: handling a GET "/" writes no state of the service (routes, cached schema,
\* process) and nothing of any other request, and the dict root() returns is a new
\* object: not one that another call in progress returned.
C9_GetRootHasNoSideEffect ==
    [][\A c \in Conns :
          RootStep(c) =>
              /\ routes' = routes
              /\ openapi_schema' = openapi_schema
              /\ server' = server
              /\ \A d \in Conns \ {c} : conn'[d] = conn[d]
              /\ conn'[c].stage = "returned" =>
                    /\ conn'[c].obj # NoObject
                    /\ conn'[c].obj \notin LiveObjects(conn)]_vars

\* C9 witness: two calls of root() have returned and not been sent yet; each
\* holds a dict of its own, and the schema cache is still empty.
C9_Witness ==
    \E c, d \in Conns :
        /\ c # d
        /\ conn[c].stage = "returned" /\ conn[d].stage = "returned"
        /\ conn[c].obj # conn[d].obj
        /\ conn[c].value = conn[d].value
        /\ openapi_schema = "None"

\* C10: under fair scheduling, every GET "/" the service has accepted is
\* eventually answered, whatever the other connections are doing.
C10_GetRootEventuallyAnswered ==
    \A c \in Conns :
        (conn[c].stage = "pending" /\ IsGetRoot(c)) ~> Answered(c)

\* C10 witness: a GET "/" has been answered while a request was in flight on
\* every other connection.
C10_Witness ==
    \E c \in Conns :
        /\ Answered(c) /\ IsGetRoot(c) /\ conn[c].resp.status = 200
        /\ \A d \in Conns \ {c} : InFlight(d)

====
